---- MODULE Spec2Model ----
(***************************************************************************)
(* mini-git: the object store (blob / tree / commit), the staging index    *)
(* and the repository facade of src/main.rs, as a state machine over the   *)
(* on-disk state of one working directory.                                 *)
(*                                                                         *)
(* Bytes are integers 0..255; strings, paths and file contents are         *)
(* sequences of bytes.  The file system is a set of directories and a map  *)
(* from files to their bytes, both keyed by resolved locations (sequences  *)
(* of path components below the root directory).                           *)
(***************************************************************************)
EXTENDS Integers, Sequences, FiniteSets, Bags, TLC

VARIABLES dirs, files, last

vars == <<dirs, files, last>>

----------------------------------------------------------------------------
(* Bounds of the model *)

\* the most object files the store holds before writes are cut off
MaxObjects == 3

----------------------------------------------------------------------------
(* Byte strings *)

NUL == 0
SP == 32
SLASH == 47
DOT == 46

\* "blob ", "tree ", "commit " and the other literals of the source
StrBlob == <<98,108,111,98>>
StrTree == <<116,114,101,101>>
StrCommit == <<99,111,109,109,105,116>>
StrParent == <<112,97,114,101,110,116>>
StrAuthor == <<97,117,116,104,111,114,32,70,114,97,110,99,105,115,32,69,117,103,101,110,101,32,67,97,115,105,98,117,32,60,101,109,97,105,108,64,101,120,97,109,112,108,101,46,99,111,109,62,32>>
StrCommitter == <<99,111,109,109,105,116,116,101,114,32,70,114,97,110,99,105,115,32,69,117,103,101,110,101,32,67,97,115,105,98,117,32,60,101,109,97,105,108,64,101,120,97,109,112,108,101,46,99,111,109,62,32>>
StrMiniGit == <<46,109,105,110,105,45,103,105,116>>
StrObjects == <<111,98,106,101,99,116,115>>
StrIndex == <<105,110,100,101,120>>
StrHEAD == <<72,69,65,68>>
StrRefs == <<114,101,102,115>>
StrHeads == <<104,101,97,100,115>>
StrTags == <<116,97,103,115>>
HeadRef == <<114,101,102,58,32,114,101,102,115,47,104,101,97,100,115,47,109,97,105,110,10>>

\* iter().position(|&b| b == x): the first index of x in s at or after i, 0 if none
RECURSIVE position(_, _, _)
position(s, x, i) ==
    IF i > Len(s) THEN 0
    ELSE IF s[i] = x THEN i
    ELSE position(s, x, i + 1)

\* the bytes of s from index i to its end
From(s, i) == SubSeq(s, i, Len(s))

\* u32 / usize / i64 to_string(): decimal digits
RECURSIVE to_string(_)
to_string(n) ==
    IF n < 10 THEN <<48 + n>>
    ELSE to_string(n \div 10) \o <<48 + (n % 10)>>

\* the least number of a non-empty set
Least(S) == CHOOSE x \in S : \A y \in S : x <= y

\* the indexes from i on at which two byte strings both have a byte and
\* differ
Differ(a, b, i) ==
    {j \in i..(IF Len(a) < Len(b) THEN Len(a) ELSE Len(b)) : a[j] # b[j]}

\* the order of two byte strings given where they differ: by the first byte
\* that differs, else the shorter first
CmpFrom(a, b, differ) ==
    IF differ # {} THEN (IF a[Least(differ)] < b[Least(differ)] THEN -1 ELSE 1)
    ELSE IF Len(a) < Len(b) THEN -1
    ELSE IF Len(a) > Len(b) THEN 1
    ELSE 0

\* lexicographic comparison of two byte strings from index i: -1, 0 or 1
CmpBytes(a, b, i) == CmpFrom(a, b, Differ(a, b, i))

\* the first of two comparisons that decides
Then(first, second) == IF first # 0 THEN first ELSE second

\* String::from_utf8 / read_to_string accept the text; over the byte values
\* the model draws (ASCII and 255) a string is UTF-8 iff every byte is ASCII
is_utf8(s) == \A i \in 1..Len(s) : s[i] < 128

----------------------------------------------------------------------------
(* Digest and compression *)

DigestLen == 20
HexLen == 40

\* one byte's share of the digest: the byte weighted by its position
Sha1Term(s, i) == (s[i] + 1) * (((i * i * 31 + i * 17 + 1) % 4093) + 1)

\* the sum of the shares of all bytes: the shares are positive, so their sum
\* is the cardinality of the bag that holds share i of element i
Sha1Sum(s) == BagCardinality([i \in 1..Len(s) |-> Sha1Term(s, i)]) % 16777216

\* Sha1 over the canonical bytes.  SHA-1 itself is replaced by a mixing
\* function with the same contract (deterministic, 20 bytes, in no order
\* relation with its input); NoCollision checks that it is injective on
\* every content the model stores.
hash_content(content) ==
    LET h == (Sha1Sum(content) + 7919 * Len(content)) % 16777216
    IN  <<h % 256, (h \div 256) % 256, h \div 65536,
          0, 0, 0, 0, 0, 0, 0, 0, 0, 0, 0, 0, 0, 0, 0, 0, 0>>

HexDigit(d) == IF d < 10 THEN 48 + d ELSE 87 + d

\* hex::encode: two lowercase hex digits per byte
encode(bytes) ==
    [i \in 1..(2 * Len(bytes)) |->
        IF i % 2 = 1 THEN HexDigit(bytes[(i + 1) \div 2] \div 16)
        ELSE HexDigit(bytes[i \div 2] % 16)]

\* the checksum of the bytes lo..hi of s: their sum, taken as the cardinality
\* of a bag as in Sha1Sum
Checksum(s, lo, hi) ==
    (1 + BagCardinality([i \in 1..(hi - lo + 1) |-> s[lo + i - 1] + 1])) % 251

\* zlib stream: the two header bytes 0x78 0x9c, the data, a checksum trailer
compress_content(content) ==
    <<120, 156>> \o content \o <<Checksum(content, 1, Len(content))>>

\* ZlibDecoder: the data, or an error for a stream that is not well formed
decompress_content(data) ==
    IF /\ Len(data) >= 3
       /\ data[1] = 120
       /\ data[2] = 156
       /\ Checksum(data, 3, Len(data) - 1) = data[Len(data)]
    THEN [ok |-> TRUE, bytes |-> SubSeq(data, 3, Len(data) - 1)]
    ELSE [ok |-> FALSE, bytes |-> <<>>]

----------------------------------------------------------------------------
(* File system: PathBuf::join, path resolution, fs::* calls *)

\* the positions that bound the pieces of a path: its '/' separators and
\* the two ends
Separators(s) == {0, Len(s) + 1} \cup {i \in 1..Len(s) : s[i] = SLASH}

\* the separators a piece starts after
PieceStarts(s, seps) == {a \in seps : a <= Len(s) /\ (a + 1) \notin seps}

\* the piece that starts after separator a
PieceAfter(s, seps, a) ==
    SubSeq(s, a + 1, (CHOOSE x \in seps : x > a /\ \A y \in seps : y > a => x <= y) - 1)

\* the k-th of the starts
NthStart(starts, k) ==
    CHOOSE a \in starts : Cardinality({x \in starts : x < a}) = k - 1

PiecesOf(s, seps, starts) ==
    [k \in 1..Cardinality(starts) |-> PieceAfter(s, seps, NthStart(starts, k))]

PiecesBetween(s, seps) == PiecesOf(s, seps, PieceStarts(s, seps))

\* the non-empty pieces of a path between its '/' separators, in order
SplitPath(s) == PiecesBetween(s, Separators(s))

\* A PathBuf below is the list of its pieces from the root directory.
\* env::current_dir(): "/w"
current_dir == <<<<119>>>>

\* the directories that exist whatever the program does: "/" and "/w"
HostDirs == {<<>>, <<<<119>>>>}

\* Path::join: an absolute argument replaces the base
join(base, s) ==
    IF s # <<>> /\ s[1] = SLASH THEN SplitPath(s)
    ELSE base \o SplitPath(s)

IsDir(fs, at) == at \in HostDirs \/ at \in fs.dirs
IsFile(fs, at) == at \in DOMAIN fs.files

Parent(at) == IF at = <<>> THEN at ELSE SubSeq(at, 1, Len(at) - 1)

\* the kernel's walk of an absolute path: every piece is looked up in a
\* directory; "." stays, ".." goes to the parent
RECURSIVE Walk(_, _, _, _)
Walk(fs, pieces, i, at) ==
    IF i > Len(pieces) THEN [ok |-> TRUE, at |-> at]
    ELSE IF ~IsDir(fs, at) THEN [ok |-> FALSE, at |-> at]
    ELSE IF pieces[i] = <<DOT>> THEN Walk(fs, pieces, i + 1, at)
    ELSE IF pieces[i] = <<DOT, DOT>> THEN Walk(fs, pieces, i + 1, Parent(at))
    ELSE Walk(fs, pieces, i + 1, Append(at, pieces[i]))

Resolve(fs, path) == Walk(fs, path, 1, <<>>)

\* Path::exists / is_dir / is_file
exists(fs, path) ==
    LET r == Resolve(fs, path) IN r.ok /\ (IsDir(fs, r.at) \/ IsFile(fs, r.at))
is_dir(fs, path) ==
    LET r == Resolve(fs, path) IN r.ok /\ IsDir(fs, r.at)
is_file(fs, path) ==
    LET r == Resolve(fs, path) IN r.ok /\ IsFile(fs, r.at)

\* every prefix of a location, the location included
Ancestors(at) == {SubSeq(at, 1, n) : n \in 1..Len(at)}

\* fs::create_dir: the parent must be a directory and the name free
create_dir(fs, path) ==
    LET r == Resolve(fs, path)
    IN  IF r.ok /\ IsDir(fs, Parent(r.at)) /\ ~IsDir(fs, r.at) /\ ~IsFile(fs, r.at)
        THEN [ok |-> TRUE, fs |-> [fs EXCEPT !.dirs = @ \cup {r.at}]]
        ELSE [ok |-> FALSE, fs |-> fs]

\* the location a path names when every directory on the way exists
RECURSIVE WalkLexical(_, _, _)
WalkLexical(pieces, i, at) ==
    IF i > Len(pieces) THEN at
    ELSE IF pieces[i] = <<DOT>> THEN WalkLexical(pieces, i + 1, at)
    ELSE IF pieces[i] = <<DOT, DOT>> THEN WalkLexical(pieces, i + 1, Parent(at))
    ELSE WalkLexical(pieces, i + 1, Append(at, pieces[i]))

\* fs::create_dir_all: creates the missing ancestors too; an existing
\* directory is not an error
create_dir_all(fs, path) ==
    LET at == WalkLexical(path, 1, <<>>)
    IN  IF \E a \in Ancestors(at) : IsFile(fs, a)
        THEN [ok |-> FALSE, fs |-> fs]
        ELSE [ok |-> TRUE, fs |-> [fs EXCEPT !.dirs = (@ \cup Ancestors(at)) \ HostDirs]]

\* fs::write: creates or truncates the file, whole contents replaced
fs_write(fs, path, data) ==
    LET r == Resolve(fs, path)
    IN  IF r.ok /\ r.at # <<>> /\ IsDir(fs, Parent(r.at)) /\ ~IsDir(fs, r.at)
        THEN [ok |-> TRUE,
              fs |-> [fs EXCEPT !.files =
                        [x \in DOMAIN @ \cup {r.at} |-> IF x = r.at THEN data ELSE @[x]]]]
        ELSE [ok |-> FALSE, fs |-> fs]

\* fs::read: the bytes of a regular file
fs_read(fs, path) ==
    LET r == Resolve(fs, path)
    IN  IF r.ok /\ IsFile(fs, r.at)
        THEN [ok |-> TRUE, bytes |-> fs.files[r.at]]
        ELSE [ok |-> FALSE, bytes |-> <<>>]

----------------------------------------------------------------------------
(* Index entries: the derived ordering, sort, and the bincode record *)

FileMode == 100644

IndexEntry(mode, sha1, path) == [mode |-> mode, sha1 |-> sha1, path |-> path]

\* Path::components of a path given as text: a leading '/' is RootDir (1), a
\* leading "." is CurDir (2), ".." is ParentDir (3), any other non-empty piece
\* is Normal (4); repeated separators and inner "." pieces are dropped
RECURSIVE ComponentsFrom(_, _, _, _)
ComponentsFrom(pieces, i, rooted, acc) ==
    IF i > Len(pieces) THEN acc
    ELSE IF pieces[i] = <<DOT>>
         THEN ComponentsFrom(pieces, i + 1, rooted,
                  IF i = 1 /\ ~rooted THEN Append(acc, <<2, <<>>>>) ELSE acc)
    ELSE IF pieces[i] = <<DOT, DOT>>
         THEN ComponentsFrom(pieces, i + 1, rooted, Append(acc, <<3, <<>>>>))
    ELSE ComponentsFrom(pieces, i + 1, rooted, Append(acc, <<4, pieces[i]>>))

components(path) ==
    LET rooted == path # <<>> /\ path[1] = SLASH
    IN  ComponentsFrom(SplitPath(path), 1, rooted,
                       IF rooted THEN <<<<1, <<>>>>>> ELSE <<>>)

\* PathBuf's PartialEq: two paths are equal when their components are
PathEq(a, b) == components(a) = components(b)

\* PathBuf's Ord: lexicographic over the components
RECURSIVE CmpComponents(_, _, _)
CmpComponents(a, b, i) ==
    IF i > Len(a) /\ i > Len(b) THEN 0
    ELSE IF i > Len(a) THEN -1
    ELSE IF i > Len(b) THEN 1
    ELSE IF a[i][1] < b[i][1] THEN -1
    ELSE IF a[i][1] > b[i][1] THEN 1
    ELSE Then(CmpBytes(a[i][2], b[i][2], 1), CmpComponents(a, b, i + 1))

CmpPath(a, b) == CmpComponents(components(a), components(b), 1)

\* #[derive(Ord)] on IndexEntry: the fields in declaration order
\* (mode, sha1, path)
CmpEntry(a, b) ==
    IF a.mode < b.mode THEN -1
    ELSE IF a.mode > b.mode THEN 1
    ELSE Then(CmpBytes(a.sha1, b.sha1, 1), CmpPath(a.path, b.path))

RECURSIVE InsertSorted(_, _)
InsertSorted(s, e) ==
    IF s = <<>> THEN <<e>>
    ELSE IF CmpEntry(e, Head(s)) < 0 THEN <<e>> \o s
    ELSE <<Head(s)>> \o InsertSorted(Tail(s), e)

\* sort left out: the entries as they are
Unsorted(entries) == entries

\* index.entries.sort(): stable, by the derived Ord
RECURSIVE sort(_)
sort(entries) ==
    IF entries = <<>> THEN entries
    ELSE InsertSorted(sort(SubSeq(entries, 1, Len(entries) - 1)), entries[Len(entries)])

\* bincode's variable-length integers (config::standard), little endian
Varint(n) ==
    IF n < 251 THEN <<n>>
    ELSE IF n < 65536 THEN <<251, n % 256, n \div 256>>
    ELSE <<252, n % 256, (n \div 256) % 256, (n \div 65536) % 256, n \div 16777216>>

DecodeVarint(b, i) ==
    IF i > Len(b) THEN [ok |-> FALSE, val |-> 0, next |-> i]
    ELSE IF b[i] < 251 THEN [ok |-> TRUE, val |-> b[i], next |-> i + 1]
    ELSE IF b[i] = 251 /\ i + 2 <= Len(b)
         THEN [ok |-> TRUE, val |-> b[i + 1] + 256 * b[i + 2], next |-> i + 3]
    ELSE IF b[i] = 252 /\ i + 4 <= Len(b) /\ b[i + 4] < 128
         THEN [ok |-> TRUE,
               val |-> b[i + 1] + 256 * b[i + 2] + 65536 * b[i + 3] + 16777216 * b[i + 4],
               next |-> i + 5]
    ELSE [ok |-> FALSE, val |-> 0, next |-> i]

\* Encode for IndexEntry: mode, the 20 digest bytes, the path as a string
EncodeEntry(e) == Varint(e.mode) \o e.sha1 \o Varint(Len(e.path)) \o e.path

RECURSIVE EncodeEntries(_, _)
EncodeEntries(entries, i) ==
    IF i > Len(entries) THEN <<>>
    ELSE EncodeEntry(entries[i]) \o EncodeEntries(entries, i + 1)

\* bincode::encode_to_vec(&index): the entry count, then the entries
encode_to_vec(entries) == Varint(Len(entries)) \o EncodeEntries(entries, 1)

\* Decode for IndexEntry at offset i
DecodeEntry(b, i) ==
    LET mode == DecodeVarint(b, i)
        s    == mode.next
        plen == DecodeVarint(b, s + DigestLen)
        p    == plen.next
        bad  == [ok |-> FALSE, entry |-> IndexEntry(0, <<>>, <<>>), next |-> i]
    IN  IF ~mode.ok \/ s + DigestLen - 1 > Len(b) THEN bad
        ELSE IF ~plen.ok \/ p + plen.val - 1 > Len(b) THEN bad
        ELSE IF ~is_utf8(SubSeq(b, p, p + plen.val - 1)) THEN bad
        ELSE [ok |-> TRUE,
              entry |-> IndexEntry(mode.val, SubSeq(b, s, s + DigestLen - 1),
                                   SubSeq(b, p, p + plen.val - 1)),
              next |-> p + plen.val]

RECURSIVE DecodeEntries(_, _, _, _)
DecodeEntries(b, i, n, acc) ==
    IF n = 0 THEN [ok |-> TRUE, entries |-> acc]
    ELSE LET e == DecodeEntry(b, i)
         IN  IF ~e.ok THEN [ok |-> FALSE, entries |-> <<>>]
             ELSE DecodeEntries(b, e.next, n - 1, Append(acc, e.entry))

\* bincode::decode_from_slice: the entries, or a decode error
decode_from_slice(b) ==
    LET n == DecodeVarint(b, 1)
    IN  IF ~n.ok THEN [ok |-> FALSE, entries |-> <<>>]
        ELSE DecodeEntries(b, n.next, n.val, <<>>)

----------------------------------------------------------------------------
(* The three object kinds *)

\* BlobObject::new: "blob <len>\0" + content, hashed and compressed
BlobObject_new(raw_content) ==
    LET object_content == StrBlob \o <<SP>> \o to_string(Len(raw_content)) \o <<NUL>>
                          \o raw_content
    IN  [hash |-> hash_content(object_content),
         compressed_content |-> compress_content(object_content),
         raw_content |-> raw_content]

\* the entry body of a tree: "<mode> <path>\0" + the raw digest, per entry
RECURSIVE TreeBody(_, _)
TreeBody(entries, i) ==
    IF i > Len(entries) THEN <<>>
    ELSE to_string(entries[i].mode) \o <<SP>> \o entries[i].path \o <<NUL>>
         \o entries[i].sha1 \o TreeBody(entries, i + 1)

\* TreeObject::new: "tree <len>\0" + the entries in the order given
TreeObject_new(entries) ==
    LET raw_content == TreeBody(entries, 1)
        full_content == StrTree \o <<SP>> \o to_string(Len(raw_content)) \o <<NUL>>
                        \o raw_content
    IN  [hash |-> hash_content(full_content),
         compressed_content |-> compress_content(full_content),
         raw_content |-> raw_content]

\* format!("{:02}")
Pad2(n) == IF n < 10 THEN <<48>> \o to_string(n) ELSE to_string(n)

\* CommitObject::new; parent_sha1 is <<>> for None; now is the clock reading
CommitObject_new(commit_message, tree_sha1_hex, parent_sha1, now) ==
    LET offset_secs == now.utc_minus_local
        sign == IF offset_secs >= 0 THEN <<43>> ELSE <<45>>
        abs_offset == IF offset_secs >= 0 THEN offset_secs ELSE -offset_secs
        hours == abs_offset \div 3600
        minutes == (abs_offset % 3600) \div 60
        timezone == sign \o Pad2(hours) \o Pad2(minutes)
        stamp == to_string(now.timestamp) \o <<SP>> \o timezone
        metadata ==
            StrTree \o <<SP>> \o tree_sha1_hex \o <<10>>
            \o (IF parent_sha1 # <<>>
                THEN StrParent \o <<SP>> \o encode(parent_sha1) \o <<10>>
                ELSE <<>>)
            \o StrAuthor \o stamp \o <<10>>
            \o StrCommitter \o stamp \o <<10, 10>>
        raw_content == metadata \o commit_message
        full_content == StrCommit \o <<SP>> \o to_string(Len(raw_content)) \o <<NUL>>
                        \o raw_content
    IN  [hash |-> hash_content(full_content),
         compressed_content |-> compress_content(full_content),
         raw_content |-> raw_content]

----------------------------------------------------------------------------------------------------------------------------------------
(* Repository *)

\* Repository::new: the three paths below the current directory
mini_git_dir == Append(current_dir, StrMiniGit)
objects_dir == Append(mini_git_dir, StrObjects)
index_file == Append(mini_git_dir, StrIndex)

\* what an operation returns: its status (Ok or the error), the file system
\* it leaves, and the object or entries it yields
Result(status, fs) ==
    [status |-> status, fs |-> fs, hash |-> <<>>, kind |-> "", content |-> <<>>,
     entries |-> <<>>]

\* an object read or built: its kind, digest and raw content
ObjectResult(fs, kind, object, entries) ==
    [status |-> "Ok", fs |-> fs, hash |-> object.hash, kind |-> kind,
     content |-> object.raw_content, entries |-> entries]

Step(ok, fs) == [ok |-> ok, fs |-> fs]

\* fs::write of a file whether it exists or not
WriteAlways(fs, path, data) == fs_write(fs, path, data)

\* fs::write of a file unless it exists (init, lines 206-217)
WriteIfMissing(fs, path, data) ==
    IF ~exists(fs, path) THEN fs_write(fs, path, data) ELSE Step(TRUE, fs)

\* init, lines 212-217: the index file, empty
InitIndex(step) ==
    IF step.ok THEN WriteIfMissing(step.fs, Append(mini_git_dir, StrIndex), <<>>)
    ELSE step

\* init, lines 206-210: HEAD
InitHead(step) ==
    InitIndex(IF step.ok
              THEN WriteIfMissing(step.fs, Append(mini_git_dir, StrHEAD), HeadRef)
              ELSE step)

\* init, lines 203-204: refs/tags
InitTags(step) ==
    InitHead(IF step.ok
             THEN create_dir_all(step.fs, Append(Append(mini_git_dir, StrRefs), StrTags))
             ELSE step)

\* init, lines 201-202: refs/heads
InitHeads(step) ==
    InitTags(IF step.ok
             THEN create_dir_all(step.fs, Append(Append(mini_git_dir, StrRefs), StrHeads))
             ELSE step)

\* init, line 200: objects
InitObjects(step) ==
    InitHeads(IF step.ok THEN create_dir_all(step.fs, objects_dir) ELSE step)

InitResult(existed, step) ==
    [Result(IF step.ok THEN "Ok" ELSE "IoFailure", step.fs) EXCEPT
        !.kind = IF existed THEN "Reinitialized" ELSE "Initialized"]

\* Repository::init
init(fs) ==
    InitResult(exists(fs, mini_git_dir),
               InitObjects(IF exists(fs, mini_git_dir) THEN Step(TRUE, fs)
                           ELSE create_dir(fs, mini_git_dir)))

\* read_index, lines 343-356: an empty file is an empty index
Decoded(fs, decoded) ==
    IF ~decoded.ok THEN Result("CorruptIndex", fs)
    ELSE [Result("Ok", fs) EXCEPT !.entries = decoded.entries]

DecodeIndex(fs, index_data) ==
    IF ~index_data.ok THEN Result("IoFailure", fs)
    ELSE IF index_data.bytes = <<>> THEN Result("Ok", fs)
    ELSE Decoded(fs, decode_from_slice(index_data.bytes))

\* Repository::read_index
read_index(fs) ==
    IF ~is_file(fs, index_file) THEN Result("RepositoryNotInitialized", fs)
    ELSE DecodeIndex(fs, fs_read(fs, index_file))

\* Repository::get_object_path: the only check is the length
get_object_path(hash_str) ==
    IF Len(hash_str) # HexLen THEN [ok |-> FALSE, path |-> <<>>]
    ELSE [ok |-> TRUE,
          path |-> join(join(objects_dir, SubSeq(hash_str, 1, 2)), From(hash_str, 3))]

\* GitObjectsArgs
BlobArgs(data) ==
    [kind |-> "blob", data |-> data, message |-> <<>>, tree_hash |-> <<>>,
     parent_hash |-> <<>>]
TreeArgs ==
    [kind |-> "tree", data |-> <<>>, message |-> <<>>, tree_hash |-> <<>>,
     parent_hash |-> <<>>]
CommitArgs(message, tree_hash, parent_hash) ==
    [kind |-> "commit", data |-> <<>>, message |-> message, tree_hash |-> tree_hash,
     parent_hash |-> parent_hash]

\* write_object, lines 270-277: the shard directory is created when missing
EnsureDir(fs, object_subdir) ==
    IF ~exists(fs, object_subdir) THEN create_dir(fs, object_subdir) ELSE Step(TRUE, fs)

Stored(step, hash) ==
    IF step.ok THEN [Result("Ok", step.fs) EXCEPT !.hash = hash]
    ELSE Result("IoFailure", step.fs)

\* write_object, lines 279-281: the object file
WriteObjectFile(step, object_file_path, object) ==
    Stored(IF step.ok THEN fs_write(step.fs, object_file_path, object.compressed_content)
           ELSE step,
           object.hash)

\* write_object, lines 266-283: shard directory, then the object file
StoreAt(fs, object, object_subdir, file_suffix) ==
    WriteObjectFile(EnsureDir(fs, object_subdir), join(object_subdir, file_suffix), object)

StoreAs(fs, object, encoded_hash) ==
    StoreAt(fs, object, join(objects_dir, SubSeq(encoded_hash, 1, 2)), From(encoded_hash, 3))

\* the digest returned with no object file written
HashOnly(fs, object) == [Result("Ok", fs) EXCEPT !.hash = object.hash]

StoreObject(fs, object) == StoreAs(fs, object, encode(object.hash))

\* write_object, lines 241-250: a tree of the entries of the index
StoreTree(fs, index) ==
    IF index.status # "Ok" THEN index
    ELSE StoreObject(fs, TreeObject_new(index.entries))

\* Repository::write_object; now is the clock reading a commit takes
write_object(fs, object_args, now) ==
    IF ~is_dir(fs, objects_dir) THEN Result("RepositoryNotInitialized", fs)
    ELSE IF object_args.kind = "blob"
         THEN StoreObject(fs, BlobObject_new(object_args.data))
    ELSE IF object_args.kind = "tree"
         THEN StoreTree(fs, read_index(fs))
    ELSE StoreObject(fs, CommitObject_new(object_args.message, object_args.tree_hash,
                                          object_args.parent_hash, now))

\* not a clock reading: blobs and trees take none
NoClock == [timestamp |-> 0, utc_minus_local |-> 0]

\* the positions of the entries whose path has these components
EntriesAt(entries, comps) == {i \in 1..Len(entries) : components(entries[i].path) = comps}

\* a lookup that finds no entry
NoPosition(entries, file_path) == 0

\* add_to_index, line 307: the position of the first entry with an equal path,
\* 0 if none
EntryPosition(entries, file_path) ==
    IF EntriesAt(entries, components(file_path)) = {} THEN 0
    ELSE Least(EntriesAt(entries, components(file_path)))

\* an entry found is left as it is, whatever its digest
KeepAt(entries, pos, sha1, file_path) ==
    IF pos # 0 THEN entries
    ELSE Append(entries, IndexEntry(FileMode, sha1, file_path))

\* add_to_index, lines 307-321: replace the entry at pos when the digest
\* differs, push a new entry when there is none
UpsertAt(entries, pos, sha1, file_path) ==
    IF pos # 0
    THEN IF entries[pos].sha1 # sha1
         THEN [entries EXCEPT ![pos] = IndexEntry(FileMode, sha1, file_path)]
         ELSE entries
    ELSE Append(entries, IndexEntry(FileMode, sha1, file_path))

Upsert(entries, sha1, file_path) ==
    UpsertAt(entries, EntryPosition(entries, file_path), sha1, file_path)

\* add_to_index, lines 323-331: sort, then rewrite the index file
SaveIndex(fs, entries, sha1) ==
    Stored(fs_write(fs, index_file, encode_to_vec(sort(entries))), sha1)

\* add_to_index, lines 305-331: the entry goes into the index read back
AddEntry(written, index, file_path) ==
    IF index.status # "Ok" THEN index
    ELSE SaveIndex(written.fs, Upsert(index.entries, written.hash, file_path),
                   written.hash)

\* add_to_index, line 303: the blob is written first
AddWritten(written, file_path) ==
    IF written.status # "Ok" THEN written
    ELSE AddEntry(written, read_index(written.fs), file_path)

\* add_to_index without its check of the index file
AddUnchecked(fs, file_path, file) ==
    IF ~file.present THEN Result("IoFailure", fs)
    ELSE IF ~is_utf8(file.bytes) THEN Result("IoFailure", fs)
    ELSE AddWritten(write_object(fs, BlobArgs(file.bytes), NoClock), file_path)

\* Repository::add_to_index; file is the working file at file_path: whether
\* it is there, and its bytes
add_to_index(fs, file_path, file) ==
    IF ~is_file(fs, index_file) THEN Result("RepositoryNotInitialized", fs)
    ELSE IF ~file.present THEN Result("IoFailure", fs)
    ELSE IF ~is_utf8(file.bytes) THEN Result("IoFailure", fs)
    ELSE AddWritten(write_object(fs, BlobArgs(file.bytes), NoClock), file_path)

\* read_object, lines 387-389: a blob is rebuilt from the stored content
ReadBlob(fs, content) ==
    IF ~is_utf8(content) THEN Result("CorruptObject", fs)
    ELSE ObjectResult(fs, "blob", BlobObject_new(content), <<>>)

\* read_object, lines 390-393: a tree is rebuilt from the index
TreeOfIndex(fs, index) ==
    IF index.status # "Ok" THEN index
    ELSE ObjectResult(fs, "tree", TreeObject_new(index.entries), index.entries)

\* a tree read without the entries of the index
EmptyTree(fs) == ObjectResult(fs, "tree", TreeObject_new(<<>>), <<>>)

ReadTree(fs) == TreeOfIndex(fs, read_index(fs))

\* read_object, lines 394-403: a commit keeps the stored bytes
ReadCommit(fs, decompressed, content) ==
    [Result("Ok", fs) EXCEPT !.kind = "commit", !.hash = hash_content(decompressed),
                             !.content = content]

\* read_object, lines 383-408: the type before the first space, the content
\* after the first NUL
Dispatch(fs, decompressed, object_type, content) ==
    IF ~is_utf8(object_type) THEN Result("CorruptObject", fs)
    ELSE IF object_type = StrBlob THEN ReadBlob(fs, content)
    ELSE IF object_type = StrTree THEN ReadTree(fs)
    ELSE IF object_type = StrCommit THEN ReadCommit(fs, decompressed, content)
    ELSE Result("CorruptObject", fs)

\* the content taken from the NUL on, not from the byte after it
ParseFromNul(fs, decompressed, space, null_terminator_position) ==
    IF space = 0 \/ null_terminator_position = 0 THEN Result("Panic", fs)
    ELSE Dispatch(fs, decompressed, SubSeq(decompressed, 1, space - 1),
                  From(decompressed, null_terminator_position))

\* read_object, lines 380-384: both unwraps panic when the byte is missing
Parse(fs, decompressed, space, null_terminator_position) ==
    IF space = 0 \/ null_terminator_position = 0 THEN Result("Panic", fs)
    ELSE Dispatch(fs, decompressed, SubSeq(decompressed, 1, space - 1),
                  From(decompressed, null_terminator_position + 1))

\* read_object, line 378
Decompressed(fs, decompressed) ==
    IF ~decompressed.ok THEN Result("CorruptObject", fs)
    ELSE Parse(fs, decompressed.bytes, position(decompressed.bytes, SP, 1),
               position(decompressed.bytes, NUL, 1))

\* read_object, lines 374-376
ReadFile(fs, compressed_data) ==
    IF ~compressed_data.ok THEN Result("IoFailure", fs)
    ELSE Decompressed(fs, decompress_content(compressed_data.bytes))

\* read_object, lines 368-372
ReadAt(fs, object_file_path) ==
    IF ~object_file_path.ok THEN Result("InvalidAddress", fs)
    ELSE IF ~exists(fs, object_file_path.path) THEN Result("ObjectNotFound", fs)
    ELSE ReadFile(fs, fs_read(fs, object_file_path.path))

\* Repository::read_object
read_object(fs, object_hash_str) ==
    IF ~is_dir(fs, objects_dir) THEN Result("RepositoryNotInitialized", fs)
    ELSE ReadAt(fs, get_object_path(object_hash_str))

\* commit_tree, lines 437-447: the tree, then the parent when there is one,
\* must be a path that exists
Referenced(fs, path) ==
    IF ~path.ok THEN "InvalidAddress"
    ELSE IF ~exists(fs, path.path) THEN "InvalidReference"
    ELSE "Ok"

\* Repository::commit_tree; parent_hash is <<>> for None
commit_tree(fs, message, tree_hash, parent_hash, now) ==
    IF ~is_dir(fs, objects_dir) THEN Result("RepositoryNotInitialized", fs)
    ELSE IF Referenced(fs, get_object_path(tree_hash)) # "Ok"
         THEN Result(Referenced(fs, get_object_path(tree_hash)), fs)
    ELSE IF parent_hash # <<>> /\ Referenced(fs, get_object_path(encode(parent_hash))) # "Ok"
         THEN Result(Referenced(fs, get_object_path(encode(parent_hash))), fs)
    ELSE write_object(fs, CommitArgs(message, tree_hash, parent_hash), now)

\* Repository::write_tree
write_tree(fs) ==
    IF ~is_dir(fs, objects_dir) THEN Result("RepositoryNotInitialized", fs)
    ELSE write_object(fs, TreeArgs, NoClock)

----------------
(* Inputs *)

\* the paths given to update-index --add: "a" and "d/b", and "d//b", which
\* is "d/b" spelled another way
Paths == {<<97>>, <<100,47,98>>}
AliasPath == <<100,47,47,98>>

Absent == [present |-> FALSE, bytes |-> <<>>]
Present(bytes) == [present |-> TRUE, bytes |-> bytes]

\* the contents of the files given to hash-object: "" and "\0 1"
PutContents == {<<>>, <<NUL, SP, 49>>}

\* the (path, working file) pairs given to update-index --add: every path
\* with a file of every content, the other spelling with one content, and
\* one path with no file
StageInputs ==
    (Paths \X {Present(c) : c \in PutContents})
    \cup {<<AliasPath, Present(<<NUL, SP, 49>>)>>, <<<<97>>, Absent>>}

\* the location of the objects directory, and the object files below it
ObjectsAt == <<<<119>>, StrMiniGit, StrObjects>>
IndexAt == <<<<119>>, StrMiniGit, StrIndex>>
HeadAt == <<<<119>>, StrMiniGit, StrHEAD>>
ObjectFiles(fs) ==
    {f \in DOMAIN fs.files : Len(f) = 5 /\ SubSeq(f, 1, 3) = ObjectsAt}
StoredAddresses(fs) == {f[4] \o f[5] : f \in ObjectFiles(fs)}

\* hex::decode of a well-formed address
HexValue(c) == IF c < 58 THEN c - 48 ELSE c - 87
decode_hex(hex) ==
    [i \in 1..(Len(hex) \div 2) |-> 16 * HexValue(hex[2 * i - 1]) + HexValue(hex[2 * i])]

\* addresses that name no object: 40 hex digits never written, too short,
\* 40 characters that are not hex digits, and 40 characters that are a
\* path: "ab" + 38 slashes
AbsentAddress == [i \in 1..HexLen |-> 102]
ShortAddress == <<97, 98, 99>>
NonHexAddress == [i \in 1..HexLen |-> 122]
SlashAddress == [i \in 1..HexLen |-> IF i = 1 THEN 97 ELSE IF i = 2 THEN 98 ELSE SLASH]
BadAddresses == {AbsentAddress, ShortAddress, NonHexAddress, SlashAddress}

AbsentDigest == [i \in 1..DigestLen |-> 255]

\* Local::now(): the clock readings
Clock == {[timestamp |-> 1700000000, utc_minus_local |-> -19800]}

Messages == {<<109>>}

----------------------------------------------------------------------------
(* The state machine: one action per command *)

Fs == [dirs |-> dirs, files |-> files]

\* the type tag of the object file at a location: the bytes after the two
\* header bytes of the stream, up to the first space
StoredType(fs, f) == SubSeq(fs.files[f], 3, position(fs.files[f], SP, 3) - 1)

\* the addresses of the trees, and the digests of the commits, in the store
StoredTrees(fs) == {f[4] \o f[5] : f \in {g \in ObjectFiles(fs) : StoredType(fs, g) = StrTree}}
StoredCommits(fs) ==
    {decode_hex(f[4] \o f[5]) : f \in {g \in ObjectFiles(fs) : StoredType(fs, g) = StrCommit}}

\* the (tree, parent) arguments given to commit-tree: without a parent the
\* stored trees and the addresses that name no object; with a parent (stored
\* or not) the stored trees
CommitInputs(fs) ==
    ((StoredTrees(fs) \cup {SlashAddress, AbsentAddress, ShortAddress}) \X {<<>>})
    \cup (StoredTrees(fs) \X ({AbsentDigest} \cup StoredCommits(fs)))

\* a call of the repository: the command and its arguments, the file system
\* it found, and (once it returned) its result
Call(op) ==
    [op |-> op, path |-> <<>>, present |-> FALSE, data |-> <<>>, addr |-> <<>>,
     parent |-> <<>>, before |-> Fs,
     status |-> "", hash |-> <<>>, kind |-> "", content |-> <<>>, entries |-> <<>>]

Returned(call, r) ==
    [call EXCEPT !.status = r.status, !.hash = r.hash, !.kind = r.kind,
                 !.content = r.content, !.entries = r.entries]

\* the store stays within the bound on the number of object files
Bounded(fs) == Cardinality(ObjectFiles(fs)) <= MaxObjects

\* the call returns: the file system is the one it leaves, and the call and
\* its result are kept
Finish(call, r) ==
    /\ dirs' = r.fs.dirs
    /\ files' = r.fs.files
    /\ last' = Returned(call, r)

Init ==
    /\ dirs = {}
    /\ files = <<>>
    /\ last = Call("new")

\* mini-git init
Initialize ==
    LET r == init(Fs)
    IN  /\ Bounded(r.fs)
        /\ Finish(Call("init"), r)

\* mini-git hash-object -w: write_object with a Blob
HashObjectWrite(data) ==
    LET r == write_object(Fs, BlobArgs(data), NoClock)
    IN  /\ Bounded(r.fs)
        /\ Finish([Call("put") EXCEPT !.data = data], r)

\* mini-git hash-object without -w: the digest only
HashObject(data) ==
    LET r == [Result("Ok", Fs) EXCEPT !.hash = BlobObject_new(data).hash]
    IN  /\ Bounded(r.fs)
        /\ Finish([Call("hash") EXCEPT !.data = data], r)

\* mini-git update-index --add
UpdateIndex(path, file) ==
    LET r == add_to_index(Fs, path, file)
    IN  /\ Bounded(r.fs)
        /\ Finish([Call("stage") EXCEPT !.path = path, !.present = file.present,
                                        !.data = file.bytes], r)

\* mini-git ls-files --stage
LsFiles ==
    LET r == read_index(Fs)
    IN  /\ Bounded(r.fs)
        /\ Finish(Call("list"), r)

\* read_object
ReadObject(addr) ==
    LET r == read_object(Fs, addr)
    IN  /\ Bounded(r.fs)
        /\ Finish([Call("get") EXCEPT !.addr = addr], r)

\* mini-git write-tree
WriteTree ==
    LET r == write_tree(Fs)
    IN  /\ Bounded(r.fs)
        /\ Finish(Call("write-tree"), r)

\* mini-git commit-tree
CommitTree(message, tree_hash, parent_hash, now) ==
    LET r == commit_tree(Fs, message, tree_hash, parent_hash, now)
    IN  /\ Bounded(r.fs)
        /\ Finish([Call("commit-tree") EXCEPT !.data = message, !.addr = tree_hash,
                                              !.parent = parent_hash], r)

Next ==
    \/ Initialize
    \/ \E data \in PutContents : HashObjectWrite(data)
    \/ HashObject(<<NUL, SP, 49>>)
    \/ \E input \in StageInputs : UpdateIndex(input[1], input[2])
    \/ LsFiles
    \/ \E addr \in StoredAddresses(Fs) \cup BadAddresses : ReadObject(addr)
    \/ WriteTree
    \/ \E message \in Messages, now \in Clock, input \in CommitInputs(Fs) :
            CommitTree(message, input[1], input[2], now)

Spec == Init /\ [][Next]_vars

\* The object files are plain files: another program, or a damaged disk, can
\* leave a well-formed zlib stream under objects/ whose bytes are no object.
\* CorruptPayloads are such bytes: "x" (no space, no NUL), "blob 1" (a space,
\* no NUL) and "tag 0\0" (a type that is none of blob, tree, commit).
CorruptPayloads == {<<120>>, <<98,108,111,98,32,49>>, <<116,97,103,32,48,NUL>>}

\* the address the damaged file is left at: 40 times "c"
CorruptAddress == [i \in 1..HexLen |-> 99]

\* the file system after such a file was left at CorruptAddress
Corrupt(payload) ==
    LET r == StoreAs(Fs, [hash |-> decode_hex(CorruptAddress),
                          compressed_content |-> compress_content(payload),
                          raw_content |-> payload],
                     CorruptAddress)
    IN  /\ is_dir(Fs, objects_dir)
        /\ Bounded(r.fs)
        /\ Finish([Call("corrupt") EXCEPT !.data = payload, !.addr = CorruptAddress], r)

NextCorrupt ==
    \/ Next
    \/ \E payload \in CorruptPayloads : Corrupt(payload)

\* the repository with its object files open to damage
SpecCorrupt == Init /\ [][NextCorrupt]_vars

----------------------------------------------------------------------------
(* Properties *)

\* what list() returns in a file system
Entries(fs) == read_index(fs).entries

Initialized(fs) == exists(fs, mini_git_dir)

\* the positions of the entries for a path
EntriesFor(entries, p) == {i \in 1..Len(entries) : PathEq(entries[i].path, p)}

\* the digest of the blob encoding of a content
BlobDigest(c) == BlobObject_new(c).hash

Staged == last.op = "stage" /\ last.status = "Ok"

\* the stand-in digest names one content only: no object file is ever
\* rewritten with other bytes, and every object file sits at the address of
\* its content
NoCollision ==
    /\ \A f \in ObjectFiles(last.before) :
            f \in ObjectFiles(Fs) /\ Fs.files[f] = last.before.files[f]
    /\ \A f \in ObjectFiles(Fs) :
            /\ decompress_content(Fs.files[f]).ok
            /\ encode(hash_content(decompress_content(Fs.files[f]).bytes)) = f[4] \o f[5]

Sorted(entries) ==
    \A i \in 1..(Len(entries) - 1) :
        \/ entries[i].mode < entries[i + 1].mode
        \/ /\ entries[i].mode = entries[i + 1].mode
           /\ CmpBytes(entries[i].sha1, entries[i + 1].sha1, 1) < 0
        \/ /\ entries[i].mode = entries[i + 1].mode
           /\ entries[i].sha1 = entries[i + 1].sha1
           /\ CmpPath(entries[i].path, entries[i + 1].path) <= 0

OnePerPath(entries) ==
    \A i \in 1..Len(entries) : EntriesFor(entries, entries[i].path) = {i}

\* C1: in an initialized repository, after any sequence of stage operations,
\* the index that list() returns is sorted in non-decreasing order of
\* (mode, digest, path) and holds at most one entry per path
IndexSortedOnePerPath ==
    Initialized(Fs) =>
        /\ read_index(Fs).status = "Ok"
        /\ Sorted(Entries(Fs))
        /\ OnePerPath(Entries(Fs))

\* a stage call whose entry did not land where the index is sorted: the sort
\* moved it
IndexSortedWitness ==
    /\ Staged
    /\ Len(Entries(Fs)) >= 2
    /\ Entries(Fs) # Upsert(Entries(last.before), last.hash, last.path)

\* C2: staging a path already staged with the same content leaves the entry
\* count, the entry of the path and the whole entry sequence as they were
RestageIsNoOp ==
    (/\ Staged
     /\ \E i \in EntriesFor(Entries(last.before), last.path) :
            Entries(last.before)[i].sha1 = BlobDigest(last.data))
    => /\ Entries(Fs) = Entries(last.before)
       /\ Fs.files[IndexAt] = last.before.files[IndexAt]

\* the second stage of a path with the same content, next to another entry
RestageWitness ==
    /\ Staged
    /\ Len(Entries(last.before)) >= 2
    /\ \E i \in EntriesFor(Entries(last.before), last.path) :
            Entries(last.before)[i].sha1 = BlobDigest(last.data)

\* C3: after a successful stage(p, c) the index holds exactly one entry for
\* p, with mode 100644 and the digest of the blob encoding of c; the entry of
\* every other path is as before; the count grows by one exactly when p had
\* no entry
StageSetsEntry ==
    Staged =>
        /\ Cardinality(EntriesFor(Entries(Fs), last.path)) = 1
        /\ \A i \in EntriesFor(Entries(Fs), last.path) :
                /\ Entries(Fs)[i].mode = FileMode
                /\ Entries(Fs)[i].sha1 = BlobDigest(last.data)
        /\ \A i \in 1..Len(Entries(last.before)) :
                ~PathEq(Entries(last.before)[i].path, last.path)
                => \E j \in 1..Len(Entries(Fs)) : Entries(Fs)[j] = Entries(last.before)[i]
        /\ Len(Entries(Fs)) =
                Len(Entries(last.before))
                + (IF EntriesFor(Entries(last.before), last.path) = {} THEN 1 ELSE 0)

\* a path staged again with another content, next to another entry
StageSetsEntryWitness ==
    /\ Staged
    /\ Len(Entries(Fs)) >= 2
    /\ \E i \in EntriesFor(Entries(last.before), last.path) :
            Entries(last.before)[i].sha1 # BlobDigest(last.data)

\* C4: put of the blob encoding of a text c, then get of the address put
\* returned, yields a blob whose content is c and whose digest is that
\* address; c may be empty and may hold NUL and space bytes
BlobRoundTrip ==
    /\ (last.op = "put" /\ last.status = "Ok")
       => /\ read_object(Fs, encode(last.hash)).status = "Ok"
          /\ read_object(Fs, encode(last.hash)).kind = "blob"
          /\ read_object(Fs, encode(last.hash)).content = last.data
          /\ read_object(Fs, encode(last.hash)).hash = last.hash
    /\ \A c \in PutContents :
          (last.op = "get" /\ last.addr = encode(BlobDigest(c))
           /\ last.addr \in StoredAddresses(last.before))
          => /\ last.status = "Ok"
             /\ last.kind = "blob"
             /\ last.content = c
             /\ encode(last.hash) = last.addr

\* a get that returned the content with the NUL and the space
BlobRoundTripWitness ==
    /\ last.op = "get"
    /\ last.status = "Ok"
    /\ last.kind = "blob"
    /\ last.content = <<NUL, SP, 49>>
    /\ encode(last.hash) = last.addr

IsHexDigit(c) == c \in (48..57) \cup (97..102) \cup (65..70)

\* an address of exactly 40 hexadecimal characters
WellFormed(addr) == Len(addr) = HexLen /\ \A i \in 1..Len(addr) : IsHexDigit(addr[i])

\* C5: in an initialized repository get fails with InvalidAddress for every
\* address that is not exactly 40 hexadecimal characters, and with
\* ObjectNotFound for every well-formed address with no object file; the
\* object store and the index are left unchanged in both cases
GetRejectsAddress ==
    (last.op = "get" /\ Initialized(last.before))
    => /\ ~WellFormed(last.addr)
          => last.status = "InvalidAddress" /\ Fs = last.before
       /\ (WellFormed(last.addr) /\ last.addr \notin StoredAddresses(last.before))
          => last.status = "ObjectNotFound" /\ Fs = last.before

\* the tree or the parent given to commit-tree is the address of no stored
\* object
Dangling(call) ==
    \/ call.addr \notin StoredAddresses(call.before)
    \/ call.parent # <<>> /\ encode(call.parent) \notin StoredAddresses(call.before)

\* C6: commit-tree with a tree address or a parent address that resolves to
\* no stored object fails with InvalidReference before any object is
\* written: the stored objects and the index are those before the call
CommitTreeRejectsDangling ==
    (last.op = "commit-tree" /\ Initialized(last.before) /\ Dangling(last))
    => last.status = "InvalidReference" /\ Fs = last.before

StoreOps == {"put", "get", "stage", "list", "write-tree", "commit-tree"}

\* the call has the arguments an initialized repository accepts
Acceptable(call) ==
    \/ call.op \in {"put", "list", "write-tree"}
    \/ call.op = "stage" /\ call.present
    \/ call.op = "get" /\ call.addr \in StoredAddresses(call.before)
    \/ call.op = "commit-tree" /\ ~Dangling(call)

\* C7: while the repository root does not exist every store and index
\* operation fails with RepositoryNotInitialized and creates no directory,
\* object file or index file; the check is made on every call, so the same
\* operations succeed once init has run
NotInitializedFailsFirst ==
    last.op \in StoreOps
    => IF ~Initialized(last.before)
       THEN last.status = "RepositoryNotInitialized" /\ Fs = last.before
       ELSE /\ last.status # "RepositoryNotInitialized"
            /\ Acceptable(last) => last.status = "Ok"

\* update-index --add of a file that is there, before init
NotInitializedWitness ==
    /\ last.op = "stage"
    /\ last.present
    /\ ~Initialized(last.before)
    /\ last.status = "RepositoryNotInitialized"
    /\ dirs = {}
    /\ files = <<>>

\* C8: init on an initialized repository, after any staging and object
\* writes, reports the reinitialized outcome and leaves HEAD, the index and
\* every stored object unchanged; init twice in a row leaves the state that
\* init once leaves
InitIdempotent ==
    /\ (last.op = "init" /\ Initialized(last.before))
       => /\ last.status = "Ok"
          /\ last.kind = "Reinitialized"
          /\ Fs = last.before
    /\ (last.op = "init" /\ ~Initialized(last.before))
       => last.status = "Ok" /\ last.kind = "Initialized"
    /\ init(init(Fs).fs).fs = init(Fs).fs

\* init run again on a repository with a staged entry and stored objects
InitIdempotentWitness ==
    /\ last.op = "init"
    /\ last.kind = "Reinitialized"
    /\ Len(Entries(Fs)) >= 1
    /\ Cardinality(ObjectFiles(Fs)) >= 2
    /\ Fs.files[HeadAt] = HeadRef

\* where the object file of a digest is
ObjectAt(hash) == ObjectsAt \o <<SubSeq(encode(hash), 1, 2), From(encode(hash), 3)>>

\* the bytes stored for a digest, decompressed
Payload(fs, hash) == decompress_content(fs.files[ObjectAt(hash)]).bytes

\* the first index at which needle starts in s, 0 when it is not there
Find(s, needle) ==
    IF \E i \in 1..(Len(s) - Len(needle) + 1) : SubSeq(s, i, i + Len(needle) - 1) = needle
    THEN CHOOSE i \in 1..(Len(s) - Len(needle) + 1) :
            /\ SubSeq(s, i, i + Len(needle) - 1) = needle
            /\ \A j \in 1..(i - 1) : SubSeq(s, j, j + Len(needle) - 1) # needle
    ELSE 0

\* what a tree body holds for an entry
TreeLine(e) == to_string(e.mode) \o <<SP>> \o e.path \o <<NUL>> \o e.sha1

\* C9: in the tree body write-tree produces the entries are sorted by path:
\* for staged paths p < q (equal modes) the entry of p comes before the
\* entry of q
TreeSortedByPath ==
    (last.op = "write-tree" /\ last.status = "Ok")
    => \A i, j \in 1..Len(Entries(Fs)) :
            CmpPath(Entries(Fs)[i].path, Entries(Fs)[j].path) < 0
            => /\ Find(Payload(Fs, last.hash), TreeLine(Entries(Fs)[i])) > 0
               /\ Find(Payload(Fs, last.hash), TreeLine(Entries(Fs)[i]))
                  < Find(Payload(Fs, last.hash), TreeLine(Entries(Fs)[j]))

TreeRead == last.op = "get" /\ last.status = "Ok" /\ last.kind = "tree"

\* C10: get of a tree address rebuilds the tree from the index of the time of
\* the get: it returns the entries of the index; its digest is the address
\* exactly when the payload stored there is the encoding of those entries,
\* and differs from it when a stage call changed the index after write-tree
\* stored the tree
TreeReadFromIndex ==
    /\ TreeRead
       => /\ last.entries = Entries(Fs)
          /\ last.content = TreeObject_new(Entries(Fs)).raw_content
          /\ last.hash = TreeObject_new(Entries(Fs)).hash
          /\ (encode(last.hash) = last.addr)
             <=> (Payload(Fs, decode_hex(last.addr))
                  = StrTree \o <<SP>> \o to_string(Len(last.content)) \o <<NUL>>
                    \o last.content)
    /\ (last.op = "write-tree" /\ last.status = "Ok")
       => /\ Entries(Fs) = Entries(last.before)
          /\ TreeObject_new(Entries(Fs)).hash = last.hash
          /\ Fs.files[ObjectAt(last.hash)]
             = TreeObject_new(Entries(Fs)).compressed_content

\* get of a tree stored before a stage call changed the index: the entries
\* and the digest are not those stored
TreeReadWitness ==
    /\ TreeRead
    /\ Len(last.entries) >= 1
    /\ encode(last.hash) # last.addr

\* the payload is one read_object cannot decode: it has no space, or no NUL,
\* or its type tag is none of blob, tree, commit
Undecodable(bytes) ==
    \/ position(bytes, SP, 1) = 0
    \/ position(bytes, NUL, 1) = 0
    \/ SubSeq(bytes, 1, position(bytes, SP, 1) - 1) \notin {StrBlob, StrTree, StrCommit}

\* C11: get on a stored object whose decompressed bytes hold no space, no
\* NUL, or a type tag other than blob, tree, commit returns the CorruptObject
\* error (it never panics) and leaves the object store and the index
\* unchanged
DecodingIsTotal ==
    (/\ last.op = "get"
     /\ last.addr \in StoredAddresses(last.before)
     /\ decompress_content(last.before.files[ObjectAt(decode_hex(last.addr))]).ok
     /\ Undecodable(Payload(last.before, decode_hex(last.addr))))
    => last.status = "CorruptObject" /\ Fs = last.before

\* C12: in every state reached through init, hash-object, update-index,
\* write-tree and commit-tree calls, failed ones included, the digest of
\* every index entry is the address of a blob present in the object store,
\* and no call removes or rewrites a stored object
IndexRefersToBlobs ==
    /\ Initialized(Fs)
       => \A i \in 1..Len(Entries(Fs)) :
            /\ ObjectAt(Entries(Fs)[i].sha1) \in ObjectFiles(Fs)
            /\ StoredType(Fs, ObjectAt(Entries(Fs)[i].sha1)) = StrBlob
            /\ read_object(Fs, encode(Entries(Fs)[i].sha1)).status = "Ok"
            /\ read_object(Fs, encode(Entries(Fs)[i].sha1)).kind = "blob"
            /\ read_object(Fs, encode(Entries(Fs)[i].sha1)).hash = Entries(Fs)[i].sha1
    /\ \A f \in ObjectFiles(last.before) :
            f \in ObjectFiles(Fs) /\ Fs.files[f] = last.before.files[f]

\* a failed commit-tree on a repository with two staged entries and a tree
IndexRefersToBlobsWitness ==
    /\ Len(Entries(Fs)) >= 2
    /\ last.op = "commit-tree"
    /\ last.status = "InvalidReference"
    /\ Cardinality(ObjectFiles(Fs)) = MaxObjects

====
